---- MODULE Spec2Model ----
(***************************************************************************)
(* Model of prov_interop.converter.Converter and                           *)
(* prov_interop.provpy.converter.ProvPyConverter: configuration, format    *)
(* validation, and the construction, execution and classification of an    *)
(* external prov-convert invocation.                                       *)
(*                                                                         *)
(* Python strings are sequences of one-character strings, so that          *)
(* splitting, joining, substring tests and file-extension extraction are   *)
(* computed rather than assumed.  Python lists of strings are sequences of *)
(* such strings.                                                           *)
(***************************************************************************)
EXTENDS Integers, Sequences, FiniteSets, TLC

VARIABLES
  files,    \* the paths that name an existing regular file
  cfg,      \* the caller's configuration dicts (mutable list values inside)
  conv,     \* the ProvPyConverter instance's attributes
  call,     \* the API call in progress, or the last one that finished
  status,   \* outcome of the latest configure call: "fresh", "ok", "failed"
  prev,     \* an earlier finished convert call, kept for comparison
  muts      \* number of in-place mutations the caller made to its lists

vars == <<files, cfg, conv, call, status, prev, muts>>

----------------------------------------------------------------------------
(* Bounds of the model *)

\* the caller mutates the lists of its configuration dicts at most this often
MaxMutations == 1

\* longest path the extension derivation is checked on
MaxPathLen == 4

----------------------------------------------------------------------------
(* Strings *)

Range(s) == {s[i] : i \in 1..Len(s)}

\* Python: sub in s, for strings
Contains(s, sub) ==
  \E i \in 0..(Len(s) - Len(sub)) : SubSeq(s, i + 1, i + Len(sub)) = sub

\* Python: s.rfind(ch), one-based, 0 when absent
RFind(s, ch) ==
  IF \E i \in 1..Len(s) : s[i] = ch
    THEN CHOOSE i \in 1..Len(s) : s[i] = ch /\ \A j \in (i+1)..Len(s) : s[j] # ch
    ELSE 0

\* Python: " ".join(tokens)
RECURSIVE Join(_)
Join(tokens) ==
  IF Len(tokens) = 0 THEN <<>>
  ELSE IF Len(tokens) = 1 THEN tokens[1]
  ELSE tokens[1] \o <<" ">> \o Join(Tail(tokens))

\* Python: s.split(), runs of whitespace separate the tokens
RECURSIVE SplitFrom(_, _, _)
SplitFrom(s, i, cur) ==
  IF i > Len(s)
    THEN IF cur = <<>> THEN <<>> ELSE <<cur>>
  ELSE IF s[i] = " "
    THEN IF cur = <<>> THEN SplitFrom(s, i + 1, <<>>)
         ELSE <<cur>> \o SplitFrom(s, i + 1, <<>>)
  ELSE SplitFrom(s, i + 1, Append(cur, s[i]))

Split(s) == SplitFrom(s, 1, <<>>)

Digit(d) == <<"0","1","2","3","4","5","6","7","8","9">>[d + 1]

\* Python: str(n) for an integer
RECURSIVE NatStr(_)
NatStr(n) == IF n < 10 THEN <<Digit(n)>> ELSE NatStr(n \div 10) \o <<Digit(n % 10)>>

Str(n) == IF n < 0 THEN <<"-">> \o NatStr(0 - n) ELSE NatStr(n)

----------------------------------------------------------------------------
(* os.path.splitext (posixpath: sep "/", no altsep, extsep ".") *)

\* a splitext that takes any last dot of the final component as the separator
SplitExtAnyDot(p) ==
  LET sepIndex == RFind(p, "/")
      dotIndex == RFind(p, ".")
  IN  IF dotIndex > sepIndex
        THEN <<SubSeq(p, 1, dotIndex - 1), SubSeq(p, dotIndex, Len(p))>>
        ELSE <<p, <<>>>>

\* a splitext that splits at the first dot of the final component
SplitExtFirstDot(p) ==
  LET sepIndex == RFind(p, "/")
      dots == {i \in (sepIndex + 2)..Len(p) : p[i] = "."}
  IN  IF dots # {}
        THEN LET d == CHOOSE i \in dots : \A j \in dots : i <= j
             IN  <<SubSeq(p, 1, d - 1), SubSeq(p, d, Len(p))>>
        ELSE <<p, <<>>>>

SplitExt(p) ==
  LET sepIndex == RFind(p, "/")
      dotIndex == RFind(p, ".")
  IN  IF /\ dotIndex > sepIndex
         \* leading dots of the final component are skipped
         /\ \E i \in (sepIndex + 1)..(dotIndex - 1) : p[i] # "."
        THEN <<SubSeq(p, 1, dotIndex - 1), SubSeq(p, dotIndex, Len(p))>>
        ELSE <<p, <<>>>>

\* os.path.splitext(file)[1][1:]
FormatOf(file) ==
  LET ext == SplitExt(file)[2]
  IN  SubSeq(ext, 2, Len(ext))

----------------------------------------------------------------------------
(* Program constants *)

\* prov_interop.standards: the registry of recognised formats
PROVN == <<"p","r","o","v","n">>
TTL   == <<"t","t","l">>
TRIG  == <<"t","r","i","g">>
PROVX == <<"p","r","o","v","x">>
JSON  == <<"j","s","o","n">>
FORMATS == <<PROVN, TTL, TRIG, PROVX, JSON>>

\* Converter configuration keys
INPUT_FORMATS  == "input-formats"
OUTPUT_FORMATS == "output-formats"

\* CommandLineComponent configuration keys
EXECUTABLE == "executable"
ARGUMENTS  == "arguments"

\* the text of a configuration key, for messages
KeyText(key) ==
  CASE key = INPUT_FORMATS  -> <<"i","n","p","u","t","-","f","o","r","m","a","t","s">>
    [] key = OUTPUT_FORMATS -> <<"o","u","t","p","u","t","-","f","o","r","m","a","t","s">>
    [] key = EXECUTABLE     -> <<"e","x","e","c","u","t","a","b","l","e">>
    [] key = ARGUMENTS      -> <<"a","r","g","u","m","e","n","t","s">>

\* ProvPyConverter command-line tokens
FORMAT == <<"F","O","R","M","A","T">>
INPUT  == <<"I","N","P","U","T">>
OUTPUT == <<"O","U","T","P","U","T">>

\* ProvPyConverter.LOCAL_FORMATS
LOCAL_FORMATS == [f \in {PROVX} |-> <<"x","m","l">>]

----------------------------------------------------------------------------
(* Errors *)

NoError == [type |-> "None", value |-> <<>>]
ConfigError(value) == [type |-> "ConfigError", value |-> value]
ConversionError(value) == [type |-> "ConversionError", value |-> value]
OSError == [type |-> "OSError", value |-> <<>>]

----------------------------------------------------------------------------
(* Inputs the caller draws from *)

\* configuration dicts the caller owns
ConfigIds == {"valid", "extra", "notoken", "badformat", "nokey"}

InitialConfig(k) ==
  CASE k = "valid" ->
         (EXECUTABLE :> <<"p","r","o","v","-","c","o","n","v","e","r","t">> @@ ARGUMENTS :> <<"-","f"," ","F","O","R","M","A","T"," ","I","N","P","U","T"," ","O","U","T","P","U","T">> @@
          INPUT_FORMATS :> <<JSON>> @@ OUTPUT_FORMATS :> <<PROVN, PROVX, JSON>>)
    [] k = "extra" ->
         (EXECUTABLE :> <<"e","n","v"," "," ","p","r","o","v","-","c","o","n","v","e","r","t">> @@ ARGUMENTS :> <<"O","U","T","P","U","T"," ","x","I","N","P","U","T"," ","I","N","P","U","T"," ","F","O","R","M","A","T"," ","F","O","R","M","A","T">> @@
          INPUT_FORMATS :> <<PROVX, JSON, PROVX>> @@ OUTPUT_FORMATS :> <<PROVX>>)
    [] k = "notoken" ->
         (EXECUTABLE :> <<"p","r","o","v","-","c","o","n","v","e","r","t">> @@ ARGUMENTS :> <<"-","f"," ","F","O","R","M","A","T"," ","I","N","P","U","T"," ","x","O","U","T","P","U","T">> @@
          INPUT_FORMATS :> <<JSON>> @@ OUTPUT_FORMATS :> <<JSON>>)
    [] k = "badformat" ->
         (EXECUTABLE :> <<"p","r","o","v","-","c","o","n","v","e","r","t">> @@ ARGUMENTS :> <<"F","O","R","M","A","T"," ","I","N","P","U","T"," ","O","U","T","P","U","T">> @@
          INPUT_FORMATS :> <<JSON>> @@ OUTPUT_FORMATS :> <<JSON, <<"x","m","l">>>>)
    [] k = "nokey" ->
         (EXECUTABLE :> <<"p","r","o","v","-","c","o","n","v","e","r","t">> @@ ARGUMENTS :> <<"-","f"," ","F","O","R","M","A","T"," ","I","N","P","U","T"," ","O","U","T","P","U","T">> @@
          INPUT_FORMATS :> <<JSON>>)

\* paths handed to convert
Paths == {<<"a",".","j","s","o","n">>, <<"b",".","p","r","o","v","x">>, <<".","j","s","o","n">>}

\* exit statuses of the external tool (negative: killed by a signal)
ExitCodes == {0, 1, -9}

\* formats handed to check_formats directly
CheckedFormats == {JSON, PROVX, <<"x","m","l">>, <<>>}

\* formats the caller appends to a list of its configuration
AppendedFormats == {TTL, <<"x","m","l">>}

\* the configuration dicts whose lists the caller mutates
MutatedConfigs == {"valid"}

\* the configurations used where convert calls are compared
RepeatConfigs == {"valid", "extra"}

\* characters of the paths the extension derivation is checked on
ExtAlphabet == {"a", "B", ".", "/"}

RECURSIVE StringsUpTo(_)
StringsUpTo(n) ==
  IF n = 0 THEN {<<>>}
  ELSE LET shorter == StringsUpTo(n - 1)
       IN  shorter \cup {Append(s, c) : s \in shorter, c \in ExtAlphabet}

ExtPaths == StringsUpTo(MaxPathLen)

ExtOutPaths == {<<"b",".","p","r","o","v","x">>, <<".","j","s","o","n">>, <<"d",".","e","/","f">>}

----------------------------------------------------------------------------
(* Object state *)

\* A reference to a list object: a list the converter itself created
\* (obj = "self", holding val) or the list stored under `key` in the
\* caller's configuration dict `obj`.
OwnList(val) == [obj |-> "self", key |-> "", val |-> val]
ConfigList(k, key) == [obj |-> k, key |-> key, val |-> <<>>]

Deref(ref) == IF ref.obj = "self" THEN ref.val ELSE cfg[ref.obj][ref.key]

\* Converter.__init__ (and the __init__ of the component classes)
NewConverter ==
  [config         |-> "self",
   executable     |-> <<>>,
   arguments      |-> <<>>,
   input_formats  |-> OwnList(<<>>),
   output_formats |-> OwnList(<<>>)]

\* Converter.input_formats / Converter.output_formats
input_formats(c) == Deref(c.input_formats)
output_formats(c) == Deref(c.output_formats)

\* the record of an API call: its arguments, its position, what it observed
NoCall ==
  [op           |-> "none",
   pc           |-> "Idle",
   config       |-> "",
   in_file      |-> <<>>,
   out_file     |-> <<>>,
   in_format    |-> <<>>,
   out_format   |-> <<>>,
   command_line |-> <<>>,
   return_code  |-> 0,
   error        |-> NoError,
   steps        |-> <<>>,
   in_found     |-> FALSE,
   launched     |-> FALSE,
   out_found    |-> FALSE]

Idle == call.pc \in {"Idle", "Success", "Failed"}

----------------------------------------------------------------------------
(* configure *)

\* ConfigurableComponent.configure: keeps the configuration it was given
ConfigurableComponent_configure(c, k) == [c EXCEPT !.config = k]

\* ConfigurableComponent.check_configuration: the first missing key
RECURSIVE check_configuration(_, _)
check_configuration(c, keys) ==
  IF keys = <<>> THEN NoError
  ELSE IF Head(keys) \notin DOMAIN cfg[c.config]
    THEN ConfigError(<<"M","i","s","s","i","n","g"," ">> \o KeyText(Head(keys)))
  ELSE check_configuration(c, Tail(keys))

\* CommandLineComponent.configure
CommandLineComponent_configure(c, k) ==
  LET c1 == ConfigurableComponent_configure(c, k)
      e  == check_configuration(c1, <<EXECUTABLE, ARGUMENTS>>)
  IN  IF e # NoError THEN [conv |-> c1, error |-> e]
      ELSE [conv  |-> [c1 EXCEPT !.executable = Split(cfg[k][EXECUTABLE]),
                                 !.arguments  = Split(cfg[k][ARGUMENTS])],
            error |-> NoError]

\* the first format of config[key] that is not in standards.FORMATS
RECURSIVE UnrecognisedIn(_, _)
UnrecognisedIn(key, formats) ==
  IF formats = <<>> THEN NoError
  ELSE IF Head(formats) \notin Range(FORMATS)
    THEN ConfigError(<<"U","n","r","e","c","o","g","n","i","s","e","d"," ","f","o","r","m","a","t"," ","i","n"," ">> \o KeyText(key) \o <<":">> \o Head(formats))
  ELSE UnrecognisedIn(key, Tail(formats))

\* a validation that looks at the input formats only
UnrecognisedInputOnly(k) == UnrecognisedIn(INPUT_FORMATS, cfg[k][INPUT_FORMATS])

\* Converter.configure, the loop over both keys
UnrecognisedFormat(k) ==
  LET e == UnrecognisedIn(INPUT_FORMATS, cfg[k][INPUT_FORMATS])
  IN  IF e # NoError THEN e
      ELSE UnrecognisedIn(OUTPUT_FORMATS, cfg[k][OUTPUT_FORMATS])

RECURSIVE Dedup(_)
Dedup(s) ==
  IF s = <<>> THEN <<>>
  ELSE LET d == Dedup(SubSeq(s, 1, Len(s) - 1))
       IN  IF s[Len(s)] \in Range(d) THEN d ELSE Append(d, s[Len(s)])

\* a store that keeps a duplicate-free copy of each list
StoreFormatsDedup(c, k) ==
  [c EXCEPT !.input_formats  = OwnList(Dedup(cfg[k][INPUT_FORMATS])),
            !.output_formats = OwnList(Dedup(cfg[k][OUTPUT_FORMATS]))]

\* Converter.configure, the two assignments: the converter's attributes are
\* bound to the very list objects of the configuration
StoreFormats(c, k) ==
  [c EXCEPT !.input_formats  = ConfigList(k, INPUT_FORMATS),
            !.output_formats = ConfigList(k, OUTPUT_FORMATS)]

\* Converter.configure; super(Converter, self) is CommandLineComponent in
\* the method resolution order of ProvPyConverter
Converter_configure(c, k) ==
  LET r == CommandLineComponent_configure(c, k)
      e == check_configuration(r.conv, <<INPUT_FORMATS, OUTPUT_FORMATS>>)
  IN  IF r.error # NoError THEN r
      ELSE IF e # NoError THEN [conv |-> r.conv, error |-> e]
      ELSE IF UnrecognisedFormat(k) # NoError
        THEN [conv |-> r.conv, error |-> UnrecognisedFormat(k)]
      ELSE [conv |-> StoreFormats(r.conv, k), error |-> NoError]

\* a token test that looks for the name anywhere in the arguments text
MissingTokenSubstring(arguments, tokens) ==
       LET missing == {i \in 1..Len(tokens) : ~Contains(Join(arguments), tokens[i])}
       IN  IF missing = {} THEN NoError
           ELSE ConfigError(<<"M","i","s","s","i","n","g"," ","t","o","k","e","n"," ">> \o
                            tokens[CHOOSE i \in missing : \A j \in missing : i <= j])

\* ProvPyConverter.configure, the loop over the tokens: list membership
MissingToken(arguments, tokens) ==
  LET missing == {i \in 1..Len(tokens) : tokens[i] \notin Range(arguments)}
  IN  IF missing = {} THEN NoError
      ELSE ConfigError(<<"M","i","s","s","i","n","g"," ","t","o","k","e","n"," ">> \o
                       tokens[CHOOSE i \in missing : \A j \in missing : i <= j])

\* ProvPyConverter.configure
ProvPyConverter_configure(c, k) ==
  LET r == Converter_configure(c, k)
  IN  IF r.error # NoError THEN r
      ELSE [conv  |-> r.conv,
            error |-> MissingToken(r.conv.arguments, <<FORMAT, INPUT, OUTPUT>>)]

----------------------------------------------------------------------------
(* check_formats *)

\* a check that fails only when both formats are unsupported
check_formats_both(c, in_format, out_format) ==
  IF in_format \notin Range(input_formats(c)) /\ out_format \notin Range(output_formats(c))
    THEN ConversionError(<<"U","n","s","u","p","p","o","r","t","e","d"," ","i","n","p","u","t"," ","f","o","r","m","a","t",":"," ">> \o in_format)
    ELSE NoError

\* Converter.check_formats
check_formats(c, in_format, out_format) ==
  IF in_format \notin Range(input_formats(c))
    THEN ConversionError(<<"U","n","s","u","p","p","o","r","t","e","d"," ","i","n","p","u","t"," ","f","o","r","m","a","t",":"," ">> \o in_format)
  ELSE IF out_format \notin Range(output_formats(c))
    THEN ConversionError(<<"U","n","s","u","p","p","o","r","t","e","d"," ","i","n","p","u","t"," ","f","o","r","m","a","t",":"," ">> \o out_format)
  ELSE NoError

----------------------------------------------------------------------------
(* convert *)

\* os.path.isfile
isfile(path) == path \in files

\* a base convert that accepts any input path
Converter_convert_unchecked(in_file, out_file) == NoError

\* Converter.convert
Converter_convert(in_file, out_file) ==
  IF ~isfile(in_file)
    THEN ConversionError(<<"I","n","p","u","t"," ","f","i","l","e"," ","n","o","t"," ","f","o","u","n","d",":"," ">> \o in_file)
    ELSE NoError

\* a format resolution that ignores LOCAL_FORMATS
LocalFormatNoAlias(out_format) == out_format

\* ProvPyConverter.convert: local_format
LocalFormat(out_format) ==
  IF out_format \in DOMAIN LOCAL_FORMATS THEN LOCAL_FORMATS[out_format] ELSE out_format

\* a substitution that replaces every token the name occurs in
SubstituteContaining(command_line, token, value) ==
  [i \in 1..Len(command_line) |->
     IF Contains(command_line[i], token) THEN value ELSE command_line[i]]

\* [value if x == token else x for x in command_line]
Substitute(command_line, token, value) ==
  [i \in 1..Len(command_line) |->
     IF command_line[i] = token THEN value ELSE command_line[i]]

\* a command line whose executable list object is the converter's own
\* attribute, which extend() then grows
ExecutableAliased(c) == c.executable \o c.arguments

\* the converter's executable attribute once the command line is built:
\* list(self._executable) is a copy, so extend() leaves the attribute alone
ExecutableAfterBuild(c) == c.executable

\* ProvPyConverter.convert: the command line
CommandLine(c, local_format, in_file, out_file) ==
  LET l0 == c.executable \o c.arguments
      l1 == Substitute(l0, FORMAT, local_format)
      l2 == Substitute(l1, INPUT, in_file)
  IN  Substitute(l2, OUTPUT, out_file)

\* a classification that trusts a zero exit status
OutcomeTrustingExit(command_line, return_code, out_file) ==
  IF return_code # 0
    THEN ConversionError(Join(command_line) \o <<" ","r","e","t","u","r","n","e","d"," ">> \o Str(return_code))
    ELSE NoError

\* ProvPyConverter.convert: what follows subprocess.call
Outcome(command_line, return_code, out_file) ==
  IF return_code # 0
    THEN ConversionError(Join(command_line) \o <<" ","r","e","t","u","r","n","e","d"," ">> \o Str(return_code))
  ELSE IF ~isfile(out_file)
    THEN ConversionError(<<"O","u","t","p","u","t"," ","f","i","l","e"," ","n","o","t"," ","f","o","u","n","d",":"," ">> \o out_file)
  ELSE NoError

----------------------------------------------------------------------------
(* Operations *)

Init ==
  /\ files = {}
  /\ cfg = [k \in ConfigIds |-> InitialConfig(k)]
  /\ conv = NewConverter
  /\ call = NoCall
  /\ status = [last |-> "fresh", input_formats |-> <<>>, output_formats |-> <<>>]
  /\ prev = NoCall
  /\ muts = 0

\* converter.configure(cfg[k])
Configure(k) ==
  /\ Idle
  /\ LET r == ProvPyConverter_configure(conv, k)
     IN  /\ conv' = r.conv
         /\ call' = [NoCall EXCEPT !.op = "configure",
                                   !.config = k,
                                   !.error = r.error,
                                   !.pc = IF r.error = NoError THEN "Success" ELSE "Failed"]
         /\ status' = IF r.error = NoError
                        THEN [last           |-> "ok",
                              input_formats  |-> input_formats(r.conv),
                              output_formats |-> output_formats(r.conv)]
                        ELSE [status EXCEPT !.last = "failed"]
  /\ prev' = NoCall
  /\ UNCHANGED <<files, cfg, muts>>

\* converter.check_formats(in_format, out_format), called directly
CheckFormats(in_format, out_format) ==
  /\ Idle
  /\ LET e == check_formats(conv, in_format, out_format)
     IN  call' = [NoCall EXCEPT !.op = "check_formats",
                                !.in_format = in_format,
                                !.out_format = out_format,
                                !.error = e,
                                !.pc = IF e = NoError THEN "Success" ELSE "Failed"]
  /\ UNCHANGED <<files, cfg, conv, status, prev, muts>>

\* converter.convert(in_file, out_file) is entered
Convert(in_file, out_file) ==
  /\ Idle
  /\ call' = [NoCall EXCEPT !.op = "convert",
                            !.pc = "Start",
                            !.in_file = in_file,
                            !.out_file = out_file]
  /\ UNCHANGED <<files, cfg, conv, status, prev, muts>>

\* converter.convert(in_file, out_file) is entered, and the observer keeps
\* the call that has just finished, or the one it kept before
ConvertAgain(in_file, out_file) ==
  /\ Idle
  /\ call' = [NoCall EXCEPT !.op = "convert",
                            !.pc = "Start",
                            !.in_file = in_file,
                            !.out_file = out_file]
  /\ prev' \in {prev} \cup (IF call.op = "convert" THEN {call} ELSE {})
  /\ UNCHANGED <<files, cfg, conv, status, muts>>

\* super(ProvPyConverter, self).convert(in_file, out_file)
CheckFile ==
  /\ call.op = "convert" /\ call.pc = "Start"
  /\ LET e == Converter_convert(call.in_file, call.out_file)
     IN  call' = [call EXCEPT !.steps = Append(@, "isfile(in_file)"),
                              !.in_found = isfile(call.in_file),
                              !.error = e,
                              !.pc = IF e = NoError THEN "FileChecked" ELSE "Failed"]
  /\ UNCHANGED <<files, cfg, conv, status, prev, muts>>

\* the formats are derived and check_formats is called
ValidateFormats ==
  /\ call.op = "convert" /\ call.pc = "FileChecked"
  /\ LET in_format  == FormatOf(call.in_file)
         out_format == FormatOf(call.out_file)
         e == check_formats(conv, in_format, out_format)
     IN  call' = [call EXCEPT !.steps = Append(@, "check_formats"),
                              !.in_format = in_format,
                              !.out_format = out_format,
                              !.error = e,
                              !.pc = IF e = NoError THEN "FormatsValidated" ELSE "Failed"]
  /\ UNCHANGED <<files, cfg, conv, status, prev, muts>>

\* the command line is built (and printed)
BuildInvocation ==
  /\ call.op = "convert" /\ call.pc = "FormatsValidated"
  /\ call' = [call EXCEPT !.steps = Append(@, "command_line"),
                          !.command_line = CommandLine(conv, LocalFormat(call.out_format),
                                                       call.in_file, call.out_file),
                          !.pc = "InvocationBuilt"]
  /\ conv' = [conv EXCEPT !.executable = ExecutableAfterBuild(conv)]
  /\ UNCHANGED <<files, cfg, status, prev, muts>>

\* subprocess.call raises OSError: the process could not be started
LaunchFails ==
  /\ call.op = "convert" /\ call.pc = "InvocationBuilt"
  /\ call' = [call EXCEPT !.steps = Append(@, "subprocess.call"),
                          !.error = OSError,
                          !.pc = "Failed"]
  /\ UNCHANGED <<files, cfg, conv, status, prev, muts>>

\* subprocess.call returns: the tool ran, wrote its output file or did not,
\* and exited with some status
RunProcess(return_code, writes) ==
  /\ call.op = "convert" /\ call.pc = "InvocationBuilt"
  /\ files' = IF writes THEN files \cup {call.out_file} ELSE files
  /\ call' = [call EXCEPT !.steps = Append(@, "subprocess.call"),
                          !.launched = TRUE,
                          !.return_code = return_code,
                          !.pc = "ProcessRan"]
  /\ UNCHANGED <<cfg, conv, status, prev, muts>>

\* the exit status and the output file decide the outcome
Classify ==
  /\ call.op = "convert" /\ call.pc = "ProcessRan"
  /\ LET e == Outcome(call.command_line, call.return_code, call.out_file)
     IN  call' = [call EXCEPT !.steps = IF call.return_code = 0
                                          THEN Append(@, "isfile(out_file)") ELSE @,
                              !.out_found = isfile(call.out_file),
                              !.error = e,
                              !.pc = IF e = NoError THEN "Success" ELSE "Failed"]
  /\ UNCHANGED <<files, cfg, conv, status, prev, muts>>

\* the environment creates a file
Touch(path) ==
  /\ Idle
  /\ path \notin files
  /\ files' = files \cup {path}
  /\ UNCHANGED <<cfg, conv, call, status, prev, muts>>

\* the environment removes a file
Remove(path) ==
  /\ Idle
  /\ path \in files
  /\ files' = files \ {path}
  /\ UNCHANGED <<cfg, conv, call, status, prev, muts>>

\* the caller appends to a list of one of its configuration dicts
AppendFormat(k, key, format) ==
  /\ Idle
  /\ muts < MaxMutations
  /\ key \in DOMAIN cfg[k]
  /\ cfg' = [cfg EXCEPT ![k][key] = Append(@, format)]
  /\ muts' = muts + 1
  /\ call' = NoCall
  /\ prev' = NoCall
  /\ UNCHANGED <<files, conv, status>>

\* the caller removes the last element of a list of one of its dicts
PopFormat(k, key) ==
  /\ Idle
  /\ muts < MaxMutations
  /\ key \in DOMAIN cfg[k]
  /\ cfg[k][key] # <<>>
  /\ cfg' = [cfg EXCEPT ![k][key] = SubSeq(@, 1, Len(@) - 1)]
  /\ muts' = muts + 1
  /\ call' = NoCall
  /\ prev' = NoCall
  /\ UNCHANGED <<files, conv, status>>

Next ==
  \/ \E k \in ConfigIds : Configure(k)
  \/ \E a \in CheckedFormats, b \in CheckedFormats : CheckFormats(a, b)
  \/ \E i \in Paths, o \in Paths : Convert(i, o)
  \/ CheckFile
  \/ ValidateFormats
  \/ BuildInvocation
  \/ LaunchFails
  \/ \E rc \in ExitCodes, w \in BOOLEAN : RunProcess(rc, w)
  \/ Classify
  \/ \E p \in Paths : Touch(p)
  \/ \E p \in Paths : Remove(p)

Spec == Init /\ [][Next]_vars

\* the same program with a caller that also mutates, in place, the lists of
\* the configuration dicts it handed to configure
NextAlias ==
  \/ \E k \in ConfigIds : Configure(k)
  \/ \E a \in CheckedFormats, b \in CheckedFormats : CheckFormats(a, b)
  \/ \E i \in Paths, o \in Paths : Convert(i, o)
  \/ CheckFile
  \/ ValidateFormats
  \/ BuildInvocation
  \/ LaunchFails
  \/ \E rc \in ExitCodes, w \in BOOLEAN : RunProcess(rc, w)
  \/ Classify
  \/ \E p \in Paths : Touch(p)
  \/ \E p \in Paths : Remove(p)
  \/ \E k \in MutatedConfigs, key \in {INPUT_FORMATS, OUTPUT_FORMATS}, f \in AppendedFormats :
       AppendFormat(k, key, f)
  \/ \E k \in MutatedConfigs, key \in {INPUT_FORMATS, OUTPUT_FORMATS} : PopFormat(k, key)

SpecAlias == Init /\ [][NextAlias]_vars

\* the same program with an observer that compares convert calls
NextRepeat ==
  \/ \E k \in RepeatConfigs : Configure(k)
  \/ \E i \in Paths, o \in Paths : ConvertAgain(i, o)
  \/ CheckFile
  \/ ValidateFormats
  \/ BuildInvocation
  \/ LaunchFails
  \/ \E rc \in ExitCodes, w \in BOOLEAN : RunProcess(rc, w)
  \/ Classify
  \/ \E p \in Paths : Touch(p)
  \/ \E p \in Paths : Remove(p)

SpecRepeat == Init /\ [][NextRepeat]_vars

----------------------------------------------------------------------------
(* The derivation of the formats alone, over all short paths *)

InitExt ==
  /\ files = {}
  /\ cfg = [k \in ConfigIds |-> InitialConfig(k)]
  /\ conv = NewConverter
  /\ \E i \in ExtPaths, o \in ExtOutPaths :
       call = [NoCall EXCEPT !.op = "convert", !.pc = "FileChecked",
                             !.in_file = i, !.out_file = o]
  /\ status = [last |-> "fresh", input_formats |-> <<>>, output_formats |-> <<>>]
  /\ prev = NoCall
  /\ muts = 0

\* in_format and out_format are taken from the two paths
DeriveFormats ==
  /\ call.op = "convert" /\ call.pc = "FileChecked"
  /\ call' = [call EXCEPT !.in_format = FormatOf(call.in_file),
                          !.out_format = FormatOf(call.out_file),
                          !.pc = "Derived"]
  /\ UNCHANGED <<files, cfg, conv, status, prev, muts>>

NextExt == DeriveFormats

SpecExt == InitExt /\ [][NextExt]_vars

----------------------------------------------------------------------------
(* Properties *)

Finished == call.pc \in {"Success", "Failed"}

\* the positions of the call's steps at which subprocess.call was invoked
SpawnIndexes == {i \in 1..Len(call.steps) : call.steps[i] = "subprocess.call"}

FormatsSupported ==
  /\ FormatOf(call.in_file) \in Range(input_formats(conv))
  /\ FormatOf(call.out_file) \in Range(output_formats(conv))

\* C1: a convert call invokes the external process at most once, and only
\* after the input file was found and then check_formats passed on the
\* derived formats; a call whose input file is missing, or whose input file
\* exists but whose derived formats are unsupported, fails with
\* ConversionError without invoking the process.
C1_SpawnAfterChecks ==
  call.op = "convert" =>
    /\ Cardinality(SpawnIndexes) <= 1
    /\ \A i \in SpawnIndexes :
         /\ i > 2
         /\ call.steps[1] = "isfile(in_file)"
         /\ call.steps[2] = "check_formats"
         /\ call.in_found
         /\ FormatsSupported
    /\ (call.pc # "Start" /\ ~call.in_found) =>
         /\ call.pc = "Failed"
         /\ call.error.type = "ConversionError"
         /\ SpawnIndexes = {}
    /\ (call.pc \notin {"Start", "FileChecked"} /\ call.in_found /\ ~FormatsSupported) =>
         /\ call.pc = "Failed"
         /\ call.error.type = "ConversionError"
         /\ SpawnIndexes = {}

\* the process of a convert call has run, after both checks
C1_Witness ==
  /\ call.op = "convert"
  /\ call.pc = "ProcessRan"
  /\ call.launched
  /\ SpawnIndexes = {4}

\* C2: once the process has terminated, a non-zero exit status makes convert
\* fail with a ConversionError whose message contains the joined command line
\* and the exit status, whether or not the output file exists; exit status
\* zero without the output file makes it fail with a ConversionError naming
\* the output path; exit status zero with the output file makes it return
\* normally.
C2_Outcome ==
  (call.op = "convert" /\ call.launched /\ Finished) =>
    /\ call.return_code # 0 =>
         /\ call.pc = "Failed"
         /\ call.error.type = "ConversionError"
         /\ Contains(call.error.value, Join(call.command_line))
         /\ Contains(call.error.value, Str(call.return_code))
    /\ (call.return_code = 0 /\ ~call.out_found) =>
         /\ call.pc = "Failed"
         /\ call.error.type = "ConversionError"
         /\ Contains(call.error.value, call.out_file)
    /\ (call.return_code = 0 /\ call.out_found) =>
         /\ call.pc = "Success"
         /\ call.error = NoError

\* the tool wrote its output file and still exited with a non-zero status
C2_Witness ==
  /\ call.op = "convert"
  /\ call.launched
  /\ call.pc = "Failed"
  /\ call.return_code = -9
  /\ call.out_found

\* C3: the command line convert builds is the executable tokens followed by
\* the argument tokens, where each token that is FORMAT as a whole is the
\* local format (the LOCAL_FORMATS alias of the output format if it has one,
\* the output format otherwise), each token that is INPUT is in_file, each
\* token that is OUTPUT is out_file, and every other token, also one that
\* only contains such a name, is unchanged; count and order are kept.
C3_Invocation ==
  (call.op = "convert" /\ "command_line" \in Range(call.steps)) =>
    LET template == conv.executable \o conv.arguments
        outFormat == FormatOf(call.out_file)
        localFormat == IF outFormat \in DOMAIN LOCAL_FORMATS
                         THEN LOCAL_FORMATS[outFormat] ELSE outFormat
    IN  /\ Len(call.command_line) = Len(template)
        /\ \A i \in 1..Len(template) :
             call.command_line[i] =
               CASE template[i] = FORMAT -> localFormat
                 [] template[i] = INPUT  -> call.in_file
                 [] template[i] = OUTPUT -> call.out_file
                 [] OTHER                -> template[i]

\* a.json to b.provx under "-f FORMAT INPUT OUTPUT" gives "-f xml a.json b.provx"
C3_Witness ==
  /\ call.op = "convert"
  /\ call.pc = "InvocationBuilt"
  /\ call.command_line = <<<<"p","r","o","v","-","c","o","n","v","e","r","t">>, <<"-","f">>, <<"x","m","l">>, <<"a",".","j","s","o","n">>, <<"b",".","p","r","o","v","x">>>>

\* C4 (result): check_formats fails with ConversionError exactly when the
\* input format is not among the input formats or the output format is not
\* among the output formats, and returns nothing otherwise.
C4_Result ==
  call.op = "check_formats" =>
    /\ call.error.type \in {"ConversionError", "None"}
    /\ call.error.type = "ConversionError" <=>
         \/ call.in_format \notin Range(input_formats(conv))
         \/ call.out_format \notin Range(output_formats(conv))
    /\ call.error = NoError <=> call.pc = "Success"

\* C4 (frame): a check_formats call changes nothing of the converter, the
\* configurations or the files.
C4_Frame ==
  (call' # call /\ call'.op = "check_formats") => UNCHANGED <<conv, cfg, files>>

\* C4: check_formats(a, b) fails with ConversionError iff a is not in the
\* input formats or b is not in the output formats, returns no value
\* otherwise, and leaves the converter's state unchanged in both cases.
C4_CheckFormats == []C4_Result /\ [][C4_Frame]_vars

\* check_formats rejected a pair whose input format is supported
C4_Witness ==
  /\ call.op = "check_formats"
  /\ call.error.type = "ConversionError"
  /\ call.in_format \in Range(input_formats(conv))

\* C5: configure fails with ConfigError whenever one of the two format lists
\* holds an identifier that is not in the registry, and whenever FORMAT,
\* INPUT or OUTPUT is not a token of the split arguments (a name that occurs
\* only inside a longer token is not a token).
C5_ConfigError ==
  call.op = "configure" =>
    LET config == cfg[call.config]
        unrecognised ==
          \E key \in {INPUT_FORMATS, OUTPUT_FORMATS} \cap DOMAIN config :
            \E i \in 1..Len(config[key]) : config[key][i] \notin Range(FORMATS)
        placeholderAbsent ==
          /\ ARGUMENTS \in DOMAIN config
          /\ \E t \in {FORMAT, INPUT, OUTPUT} : t \notin Range(Split(config[ARGUMENTS]))
    IN  (unrecognised \/ placeholderAbsent) =>
          /\ call.error.type = "ConfigError"
          /\ call.pc = "Failed"

\* configure rejected arguments in which OUTPUT occurs only inside xOUTPUT
C5_Witness ==
  /\ call.op = "configure"
  /\ call.config = "notoken"
  /\ call.error = ConfigError(<<"M","i","s","s","i","n","g"," ","t","o","k","e","n"," ","O","U","T","P","U","T">>)

\* C6 (read): after a configure call that returned, the input and output
\* formats read from the converter are the sequences the configuration holds.
C6_Read ==
  (call.op = "configure" /\ call.error = NoError) =>
    /\ input_formats(conv) = cfg[call.config][INPUT_FORMATS]
    /\ output_formats(conv) = cfg[call.config][OUTPUT_FORMATS]

\* C6 (again): configuring again with the same configuration leaves the
\* converter as it was.
C6_Again ==
  (/\ call.op = "configure" /\ call.error = NoError
   /\ call'.op = "configure" /\ call'.config = call.config) => conv' = conv

\* C6: after configure returns, input_formats and output_formats are exactly
\* the sequences supplied (same elements, same order, duplicates kept), and
\* configure called again with the same configuration leaves the same state.
C6_Configured == []C6_Read /\ [][C6_Again]_vars

\* a configuration with a repeated input format was stored as given
C6_Witness ==
  /\ call.op = "configure"
  /\ call.error = NoError
  /\ input_formats(conv) = <<PROVX, JSON, PROVX>>

\* C7: while the latest configure call is one that failed with ConfigError,
\* no convert call invokes the external process or returns normally.
C7_Unusable ==
  status.last = "failed" =>
    ~(call.op = "convert" /\ (call.launched \/ call.pc = "Success"))

\* two convert calls met the same arguments, files and tool behaviour
SameConditions(a, b) ==
  /\ a.in_file = b.in_file
  /\ a.out_file = b.out_file
  /\ a.in_found = b.in_found
  /\ a.launched = b.launched
  /\ a.return_code = b.return_code
  /\ a.out_found = b.out_found

\* C8 (frame): no step of a convert call changes the converter's attributes
\* or the configurations.
C8_Frame ==
  (call' # call /\ call'.op = "convert") => UNCHANGED <<conv, cfg>>

\* C8 (repeat): a finished convert call that met the same conditions as an
\* earlier one, with no configure in between, built the same command line and
\* ended the same way.
C8_Same ==
  (call.op = "convert" /\ Finished /\ prev.op = "convert" /\ SameConditions(call, prev)) =>
    /\ call.command_line = prev.command_line
    /\ call.pc = prev.pc
    /\ call.error = prev.error

\* C8: convert never modifies the converter's state, and after any earlier
\* convert calls a call with the same arguments, file conditions and tool
\* behaviour builds the same invocation and has the same outcome.
C8_Stateless == []C8_Same /\ [][C8_Frame]_vars

\* a second convert call with the same arguments succeeded like an earlier one
C8_Witness ==
  /\ call.op = "convert"
  /\ call.pc = "Success"
  /\ prev.op = "convert"
  /\ prev.pc = "Success"
  /\ SameConditions(call, prev)

\* C9: after a configure call that returned, the converter's input and
\* output formats stay what they were when it returned, whatever the caller
\* does to the configuration it passed in.
C9_OwnCopy ==
  status.last = "ok" =>
    /\ input_formats(conv) = status.input_formats
    /\ output_formats(conv) = status.output_formats

\* the final component of a path
FinalComponent(p) == SubSeq(p, RFind(p, "/") + 1, Len(p))

\* what follows the last dot of a name, nothing if it has no dot
AfterLastDot(name) ==
  IF "." \in Range(name) THEN SubSeq(name, RFind(name, ".") + 1, Len(name)) ELSE <<>>

\* a name without its leading dots
RECURSIVE StripLeadingDots(_)
StripLeadingDots(name) ==
  IF name # <<>> /\ Head(name) = "." THEN StripLeadingDots(Tail(name)) ELSE name

\* C10 as stated: each format is what follows the last dot of the final
\* path component, as it is, also when the only dot is the leading character.
C10_LastDot ==
  call.pc = "Derived" =>
    /\ call.in_format = AfterLastDot(FinalComponent(call.in_file))
    /\ call.out_format = AfterLastDot(FinalComponent(call.out_file))

\* C10 amended: each format is what follows the last dot of the final path
\* component once the leading dots of that component are set aside, as it is
\* (no case folding); it is empty when no dot is left.
C10_Extension ==
  call.pc = "Derived" =>
    /\ call.in_format = AfterLastDot(StripLeadingDots(FinalComponent(call.in_file)))
    /\ call.out_format = AfterLastDot(StripLeadingDots(FinalComponent(call.out_file)))

\* a name whose only dot is its first character has the empty format
C10_Witness ==
  /\ call.pc = "Derived"
  /\ call.in_file = <<".","a">>
  /\ call.in_format = <<>>
  /\ call.out_file = <<".","j","s","o","n">>
  /\ call.out_format = <<>>

====
